---- MODULE Spec2Model ----
(***************************************************************************)
(* Model of the repository-intelligence backend:                           *)
(*   services/dependency_service.py  manifest parsers and the aggregator   *)
(*   services/analysis_service.py    commit analyzer                       *)
(*   services/github_service.py      upstream fetches                      *)
(*   main.py                         HTTP operations                       *)
(*                                                                         *)
(* Text is a sequence of symbols.  A symbol is one character, or a word    *)
(* that the inputs never split ("require", "latest", "[packages]", ...).   *)
(* Maps (Python dicts) are functions whose domain is a set of such texts.  *)
(***************************************************************************)
EXTENDS Integers, Sequences, FiniteSets, TLC

VARIABLES
    p_pc,           \* parser harness: "ready", "done"
    p_file,         \* the manifest filename whose parser is applied
    p_content,      \* the content string handed to the parser
    p_result,       \* what the parser call produced
    d_pc,           \* analyze_dependencies: "probing", "done", "raised"
    d_idx,          \* index into package_files of the next probe
    d_content,      \* content returned by the last get_file_content
    dependencies,   \* the report dict built by analyze_dependencies
    d_invoked,      \* filenames whose analyzer has been called
    d_absent,       \* filenames for which get_file_content returned None
    d_fetched,      \* what get_file_content returned for each filename probed
    c_pc,           \* analyze_commits: "start", "loop", "done"
    c_family,       \* which field of the commits varies in this run
    c_n,            \* number of commits of the list iterated so far
    categories,     \* the categories dict
    author_stats,   \* the Counter, as (name, count) pairs in insertion order
    commit_dates,   \* the commit_dates list
    c_seen,         \* the commits iterated so far, as a bag
    c_first,        \* author names in the order first encountered
    c_report,       \* the dict analyze_commits returned
    a_pc,           \* HTTP operation: "idle", "done"
    a_op,           \* the operation called
    a_upstream,     \* status code of each upstream fetch the call made
    a_response,     \* the response the caller received
    f_pc,           \* secondary fetch: "idle", "done"
    f_op,           \* the GitHubService method called
    f_response,     \* the upstream response to its request
    f_result        \* what the method returned or raised

parserVars == <<p_pc, p_file, p_content, p_result>>
depVars == <<d_pc, d_idx, d_content, dependencies, d_invoked, d_absent, d_fetched>>
commitVars == <<c_pc, c_family, c_n, categories, author_stats,
                commit_dates, c_seen, c_first, c_report>>
apiVars == <<a_pc, a_op, a_upstream, a_response>>
fetchVars == <<f_pc, f_op, f_response, f_result>>
vars == <<parserVars, depVars, commitVars, apiVars, fetchVars>>

-----------------------------------------------------------------------------
(* Bounds of the model *)

MaxContentLen == 6
MaxGoLines == 3
MaxCommits == 3
MaxAuthorCommits == 12
MaxPipfileLines == 4

-----------------------------------------------------------------------------
(* Python str operations on symbol sequences *)

NL == "\n"

EmptyMap == [k \in {} |-> <<>>]

\* d[key] = value on a dict
Put(d, key, value) == [k \in (DOMAIN d) \cup {key} |-> IF k = key THEN value ELSE d[k]]

\* dict.get(key, default)
Get(d, key, default) == IF key \in DOMAIN d THEN d[key] ELSE default

\* str.isspace for one symbol
IsSpace(c) == c \in {" ", NL}

RECURSIVE LStrip(_)
LStrip(s) == IF s # <<>> /\ IsSpace(Head(s)) THEN LStrip(Tail(s)) ELSE s

RECURSIVE RStrip(_)
RStrip(s) ==
    IF s # <<>> /\ IsSpace(s[Len(s)]) THEN RStrip(SubSeq(s, 1, Len(s) - 1)) ELSE s

\* str.strip()
Strip(s) == RStrip(LStrip(s))

\* str.startswith(prefix)
StartsWith(s, prefix) ==
    /\ Len(prefix) <= Len(s)
    /\ SubSeq(s, 1, Len(prefix)) = prefix

\* str.split(sep) for a one-symbol separator: always at least one piece
RECURSIVE SplitOn(_, _)
SplitOn(s, sep) ==
    IF \A i \in 1..Len(s) : s[i] # sep
    THEN <<s>>
    ELSE LET i == CHOOSE j \in 1..Len(s) :
                      /\ s[j] = sep
                      /\ \A k \in 1..(j - 1) : s[k] # sep
         IN  <<SubSeq(s, 1, i - 1)>> \o SplitOn(SubSeq(s, i + 1, Len(s)), sep)

\* str.split() with no argument: runs of whitespace separate, no empty pieces
RECURSIVE SplitWs(_)
SplitWs(s) ==
    LET t == LStrip(s)
    IN  IF t = <<>>
        THEN <<>>
        ELSE LET n == CHOOSE j \in 1..Len(t) :
                          /\ \A k \in 1..j : ~IsSpace(t[k])
                          /\ (j = Len(t) \/ IsSpace(t[j + 1]))
             IN  <<SubSeq(t, 1, n)>> \o SplitWs(SubSeq(t, n + 1, Len(t)))

\* str.replace(old, "") : every non-overlapping occurrence, left to right
RECURSIVE Remove(_, _)
Remove(s, old) ==
    IF s = <<>> THEN <<>>
    ELSE IF StartsWith(s, old) THEN Remove(SubSeq(s, Len(old) + 1, Len(s)), old)
    ELSE <<Head(s)>> \o Remove(Tail(s), old)

\* sub in s
Contains(s, sub) ==
    \E i \in 0..(Len(s) - Len(sub)) : SubSeq(s, i + 1, i + Len(sub)) = sub

\* length of the longest prefix of s whose symbols are all in the class
RECURSIVE RunLen(_, _)
RunLen(s, class) ==
    IF s # <<>> /\ Head(s) \in class THEN 1 + RunLen(Tail(s), class) ELSE 0

\* all sequences over alphabet of length at most n
SeqsUpTo(alphabet, n) == UNION {[1..k -> alphabet] : k \in 0..n}

-----------------------------------------------------------------------------
(* Parser results: None, a dict, or an exception that leaves the parser *)

ResNone == [kind |-> "none"]
ResDict(d) == [kind |-> "dict", value |-> d]
ResRaise(exc) == [kind |-> "raise", exc |-> exc]

Latest == <<"latest">>

-----------------------------------------------------------------------------
(* _analyze_python_dependencies, dependency_service.py 58-75 *)

\* [a-zA-Z0-9\-_] and [>=<!=] restricted to the symbols of the inputs
NameChars == {"a", "b", "1", "-", "_"}
OpChars == {">", "=", "<", "!"}

\* re.match(r'^([a-zA-Z0-9\-_]+)([>=<!=]+)(.+)$', line): the three groups, or
\* no match.  The name group is greedy and must be followed by a comparator
\* symbol; the comparator group is greedy but leaves one symbol to (.+).
PyMatch(line) ==
    LET n == RunLen(line, NameChars)
        rest == SubSeq(line, n + 1, Len(line))
        o == RunLen(rest, OpChars)
        k == IF o = Len(rest) THEN o - 1 ELSE o
    IN  IF n >= 1 /\ o >= 1 /\ Len(rest) >= 2 /\ (\A i \in 1..Len(line) : line[i] # NL)
        THEN [matched |-> TRUE,
              package |-> SubSeq(line, 1, n),
              operator |-> SubSeq(rest, 1, k),
              version |-> SubSeq(rest, k + 1, Len(rest))]
        ELSE [matched |-> FALSE]

\* PyLine with a duplicate name keeping its first value
PyLine_FirstWins(deps, raw) ==
    LET line == Strip(raw)
        m == PyMatch(line)
        key == IF m.matched THEN m.package ELSE line
    IN  IF line # <<>> /\ ~StartsWith(line, <<"#">>) /\ key \notin DOMAIN deps
        THEN Put(deps, key, IF m.matched THEN m.operator \o m.version ELSE Latest)
        ELSE deps

\* one iteration of the loop at 63-73
PyLine(deps, raw) ==
    LET line == Strip(raw)
        m == PyMatch(line)
    IN  IF line # <<>> /\ ~StartsWith(line, <<"#">>)
        THEN IF m.matched
             THEN Put(deps, m.package, m.operator \o m.version)
             ELSE Put(deps, line, Latest)
        ELSE deps

RECURSIVE PyLoop(_, _)
PyLoop(deps, lines) ==
    IF lines = <<>> THEN deps ELSE PyLoop(PyLine(deps, Head(lines)), Tail(lines))

AnalyzePython(content) ==
    LET lines == SplitOn(Strip(content), NL)
        deps == PyLoop(EmptyMap, lines)
    IN  IF DOMAIN deps # {} THEN ResDict([dependencies |-> deps]) ELSE ResNone

-----------------------------------------------------------------------------
(* _analyze_go_dependencies, dependency_service.py 164-186 *)

\* Python values that a dict subscript may receive as key
PyStr(s) == [type |-> "str", s |-> s]
PyList(items) == [type |-> "list", items |-> items]

\* line 183: module, version = parts, parts[1]
\* (parts is the list produced by split(); Python indexes from 0)
GoUnpack(parts) == [module |-> PyList(parts), version |-> PyStr(parts[2])]

\* line 184: dependencies[module] = version; a list is unhashable
GoStore(st, key, value) ==
    IF key.type = "list"
    THEN [st EXCEPT !.raised = "TypeError"]
    ELSE [st EXCEPT !.deps = Put(st.deps, key.s, value.s)]

RequireOpen == <<"require", " ", "(">>
RequireWord == <<"require", " ">>

\* one iteration of the loop at 171-184
GoLine(st, raw) ==
    LET line == Strip(raw)
        parts == SplitWs(Remove(line, RequireWord))
    IN  IF StartsWith(line, RequireOpen)
        THEN [st EXCEPT !.in_require = TRUE]
        ELSE IF line = <<")">> /\ st.in_require
        THEN [st EXCEPT !.in_require = FALSE]
        ELSE IF st.in_require \/ StartsWith(line, RequireWord)
        THEN IF Len(parts) >= 2
             THEN LET u == GoUnpack(parts) IN GoStore(st, u.module, u.version)
             ELSE st
        ELSE st

RECURSIVE GoLoop(_, _)
GoLoop(st, lines) ==
    IF lines = <<>> \/ st.raised # "" THEN st
    ELSE GoLoop(GoLine(st, Head(lines)), Tail(lines))

AnalyzeGo(content) ==
    LET st == GoLoop([deps |-> EmptyMap, in_require |-> FALSE, raised |-> ""],
                     SplitOn(content, NL))
    IN  IF st.raised # "" THEN ResRaise(st.raised)
        ELSE IF DOMAIN st.deps # {} THEN ResDict([dependencies |-> st.deps])
        ELSE ResNone

-----------------------------------------------------------------------------
(* _analyze_pipfile_dependencies, dependency_service.py 77-107 *)

\* symbols whose first character is '['
BracketSymbols == {"[", "[packages]", "[dev-packages]", "[source]"}

\* str.strip('"')
RECURSIVE StripQuotes(_)
StripQuotes(s) ==
    IF s # <<>> /\ Head(s) = "\"" THEN StripQuotes(Tail(s))
    ELSE IF s # <<>> /\ s[Len(s)] = "\"" THEN StripQuotes(SubSeq(s, 1, Len(s) - 1))
    ELSE s

\* PipfileLine in which an unrecognised header leaves the section as it is
PipfileLine_NoReset(st, raw) ==
    LET line == Strip(raw)
        i == CHOOSE j \in 1..Len(line) :
                 /\ line[j] = "="
                 /\ \A k \in 1..(j - 1) : line[k] # "="
        package == Strip(SubSeq(line, 1, i - 1))
        version == StripQuotes(Strip(SubSeq(line, i + 1, Len(line))))
    IN  IF StartsWith(line, <<"[packages]">>)
        THEN [st EXCEPT !.current_section = "packages"]
        ELSE IF StartsWith(line, <<"[dev-packages]">>)
        THEN [st EXCEPT !.current_section = "dev-packages"]
        ELSE IF line # <<>> /\ Head(line) \in BracketSymbols
        THEN st
        ELSE IF st.current_section # "None" /\ Contains(line, <<"=">>)
        THEN IF st.current_section = "packages"
             THEN [st EXCEPT !.dependencies = Put(@, package, version)]
             ELSE [st EXCEPT !.dev_dependencies = Put(@, package, version)]
        ELSE st

\* one iteration of the loop at 86-102
PipfileLine(st, raw) ==
    LET line == Strip(raw)
        i == CHOOSE j \in 1..Len(line) :
                 /\ line[j] = "="
                 /\ \A k \in 1..(j - 1) : line[k] # "="
        package == Strip(SubSeq(line, 1, i - 1))
        version == StripQuotes(Strip(SubSeq(line, i + 1, Len(line))))
    IN  IF StartsWith(line, <<"[packages]">>)
        THEN [st EXCEPT !.current_section = "packages"]
        ELSE IF StartsWith(line, <<"[dev-packages]">>)
        THEN [st EXCEPT !.current_section = "dev-packages"]
        ELSE IF line # <<>> /\ Head(line) \in BracketSymbols
        THEN [st EXCEPT !.current_section = "None"]
        ELSE IF st.current_section # "None" /\ Contains(line, <<"=">>)
        THEN IF st.current_section = "packages"
             THEN [st EXCEPT !.dependencies = Put(@, package, version)]
             ELSE [st EXCEPT !.dev_dependencies = Put(@, package, version)]
        ELSE st

RECURSIVE PipfileLoop(_, _)
PipfileLoop(st, lines) ==
    IF lines = <<>> THEN st ELSE PipfileLoop(PipfileLine(st, Head(lines)), Tail(lines))

AnalyzePipfile(content) ==
    LET st == PipfileLoop([dependencies |-> EmptyMap, dev_dependencies |-> EmptyMap,
                           current_section |-> "None"],
                          SplitOn(content, NL))
    IN  IF DOMAIN st.dependencies # {} \/ DOMAIN st.dev_dependencies # {}
        THEN ResDict([dependencies |-> st.dependencies,
                      dev_dependencies |-> st.dev_dependencies])
        ELSE ResNone

-----------------------------------------------------------------------------
(* The three re.findall parsers, dependency_service.py 109-148 *)

\* least index >= from at which a symbol of the class stands, 0 when none
Find(s, class, from) ==
    IF \E i \in from..Len(s) : s[i] \in class
    THEN CHOOSE i \in from..Len(s) :
             /\ s[i] \in class
             /\ \A k \in from..(i - 1) : s[k] \notin class
    ELSE 0

\* least index >= from at which a symbol outside the class stands, Len(s)+1 when none
FindNot(s, class, from) ==
    IF \E i \in from..Len(s) : s[i] \notin class
    THEN CHOOSE i \in from..Len(s) :
             /\ s[i] \notin class
             /\ \A k \in from..(i - 1) : s[k] \in class
    ELSE Len(s) + 1

\* positions of the tags, each searched after the one before; ends with 0
\* when a tag is missing
RECURSIVE TagChain(_, _, _)
TagChain(s, tags, from) ==
    IF tags = <<>> THEN <<>>
    ELSE LET i == Find(s, {Head(tags)}, from)
         IN  IF i = 0 THEN <<0>> ELSE <<i>> \o TagChain(s, Tail(tags), i + 1)

MavenTags ==
    <<"<dependency>", "<groupId>", "</groupId>", "<artifactId>", "</artifactId>",
      "<version>", "</version>", "</dependency>">>

\* the match of TagChain's positions: the three groups and where it ends
MavenGroups(s, at) ==
    IF at[Len(at)] = 0 THEN [matched |-> FALSE]
    ELSE [matched |-> TRUE, end |-> at[8],
          group_id |-> SubSeq(s, at[2] + 1, at[3] - 1),
          artifact_id |-> SubSeq(s, at[4] + 1, at[5] - 1),
          version |-> SubSeq(s, at[6] + 1, at[7] - 1)]

\* leftmost match of the pattern at line 114 starting at or after from: every
\* .*? is lazy and DOTALL, so each tag is taken at its next occurrence
MavenMatch(s, from) == MavenGroups(s, TagChain(s, MavenTags, from))

\* the loop at 117-119 over the matches re.findall returns
RECURSIVE MavenLoop(_, _, _)
MavenEntry(deps, s, m) ==
    IF ~m.matched THEN deps
    ELSE MavenLoop(Put(deps, m.group_id \o <<":">> \o m.artifact_id, Strip(m.version)),
                   s, m.end + 1)

MavenLoop(deps, s, from) == MavenEntry(deps, s, MavenMatch(s, from))

AnalyzeMaven(content) ==
    LET deps == MavenLoop(EmptyMap, content, 1)
    IN  IF DOMAIN deps # {} THEN ResDict([dependencies |-> deps]) ELSE ResNone

Quotes == {"'", "\""}
GradleKeywords == {"implementation", "compile", "api"}

\* the pattern at line 128 tried at position p
GradleAt(s, p) ==
    LET q == FindNot(s, {" ", NL}, p + 1)          \* \s+ then ['"]
        c1 == Find(s, {":"}, q + 1)                 \* ([^:]+):
        c2 == IF c1 = 0 THEN 0 ELSE Find(s, {":"}, c1 + 1)   \* ([^:]+):
        e == IF c2 = 0 THEN 0 ELSE Find(s, Quotes, c2 + 1)   \* ([^'"]+)['"]
    IN  IF /\ p <= Len(s) /\ s[p] \in GradleKeywords
           /\ q > p + 1 /\ q <= Len(s) /\ s[q] \in Quotes
           /\ c1 > q + 1 /\ c2 > c1 + 1 /\ e > c2 + 1
        THEN [matched |-> TRUE, end |-> e,
              group |-> SubSeq(s, q + 1, c1 - 1),
              name |-> SubSeq(s, c1 + 1, c2 - 1),
              version |-> SubSeq(s, c2 + 1, e - 1)]
        ELSE [matched |-> FALSE]

\* the loop at 131-133 over the matches re.findall returns
RECURSIVE GradleLoop(_, _, _)
GradleEntry(deps, s, p, m) ==
    IF m.matched
    THEN GradleLoop(Put(deps, m.group \o <<":">> \o m.name, m.version), s, m.end + 1)
    ELSE GradleLoop(deps, s, p + 1)

GradleLoop(deps, s, p) ==
    IF p > Len(s) THEN deps ELSE GradleEntry(deps, s, p, GradleAt(s, p))

AnalyzeGradle(content) ==
    LET deps == GradleLoop(EmptyMap, content, 1)
    IN  IF DOMAIN deps # {} THEN ResDict([dependencies |-> deps]) ELSE ResNone

\* the pattern at line 142 tried at position p
GemAt(s, p) ==
    LET q == FindNot(s, {" ", NL}, p + 1)          \* \s+ then ['"]
        e == Find(s, Quotes, q + 1)                 \* ([^'"]+)['"]
        q2 == FindNot(s, {" ", NL}, e + 2)          \* ,\s* then ['"]
        e2 == Find(s, Quotes, q2 + 1)               \* ([^'"]+)['"]
        second == /\ e + 1 <= Len(s) /\ s[e + 1] = ","
                  /\ q2 <= Len(s) /\ s[q2] \in Quotes
                  /\ e2 > q2 + 1
    IN  IF /\ p <= Len(s) /\ s[p] = "gem"
           /\ q > p + 1 /\ q <= Len(s) /\ s[q] \in Quotes
           /\ e > q + 1
        THEN [matched |-> TRUE,
              end |-> IF second THEN e2 ELSE e,
              name |-> SubSeq(s, q + 1, e - 1),
              version |-> IF second THEN SubSeq(s, q2 + 1, e2 - 1) ELSE <<>>]
        ELSE [matched |-> FALSE]

\* the loop at 145-146 over the matches re.findall returns
RECURSIVE GemLoop(_, _, _)
GemEntry(deps, s, p, m) ==
    IF m.matched
    THEN GemLoop(Put(deps, m.name, IF m.version # <<>> THEN m.version ELSE Latest),
                 s, m.end + 1)
    ELSE GemLoop(deps, s, p + 1)

GemLoop(deps, s, p) ==
    IF p > Len(s) THEN deps ELSE GemEntry(deps, s, p, GemAt(s, p))

AnalyzeRuby(content) ==
    LET deps == GemLoop(EmptyMap, content, 1)
    IN  IF DOMAIN deps # {} THEN ResDict([dependencies |-> deps]) ELSE ResNone

-----------------------------------------------------------------------------
(* Fetched file contents, github_service.py 62-77: None or a str *)

NoContent == [kind |-> "None"]
Text(s) == [kind |-> "str", text |-> s]

\* The text of a JSON manifest is given by what json.loads makes of it: a
\* JSONDecodeError, or the decoded value (a dict of members, or a value of
\* another type).  Members hold name -> version objects.
JsonText(outcome) == [kind |-> "str", loads |-> outcome]
JSONDecodeError == [error |-> "JSONDecodeError"]
JsonValue(v) == [error |-> "", value |-> v]
JsonDict(items) == [type |-> "dict", items |-> items]
JsonList == [type |-> "list"]

\* "if content:" a str is true unless it is empty
Truthy(content) ==
    /\ content.kind = "str"
    /\ ~("text" \in DOMAIN content /\ content.text = <<>>)

-----------------------------------------------------------------------------
(* _analyze_npm_dependencies 42-56 and _analyze_composer_dependencies 150-162 *)

AnalyzeNpm(loads) ==
    IF loads.error # "" THEN ResNone                      \* except json.JSONDecodeError
    ELSE IF loads.value.type # "dict" THEN ResRaise("AttributeError")   \* data.get
    ELSE ResDict([dependencies |-> Get(loads.value.items, "dependencies", EmptyMap),
                  dev_dependencies |-> Get(loads.value.items, "devDependencies", EmptyMap),
                  scripts |-> Get(loads.value.items, "scripts", EmptyMap),
                  version |-> Get(loads.value.items, "version", <<"unknown">>)])

AnalyzeComposer(loads) ==
    IF loads.error # "" THEN ResNone
    ELSE IF loads.value.type # "dict" THEN ResRaise("AttributeError")
    ELSE ResDict([dependencies |-> Get(loads.value.items, "require", EmptyMap),
                  dev_dependencies |-> Get(loads.value.items, "require-dev", EmptyMap)])

-----------------------------------------------------------------------------
(* analyze_dependencies, dependency_service.py 7-40 *)

\* package_files 18-27, in dict order
package_files ==
    <<"package.json", "requirements.txt", "Pipfile", "pom.xml",
      "build.gradle", "Gemfile", "composer.json", "go.mod">>

\* analyzer(content) at line 32
Analyzer(filename, content) ==
    CASE filename = "package.json" -> AnalyzeNpm(content.loads)
      [] filename = "requirements.txt" -> AnalyzePython(content.text)
      [] filename = "Pipfile" -> AnalyzePipfile(content.text)
      [] filename = "pom.xml" -> AnalyzeMaven(content.text)
      [] filename = "build.gradle" -> AnalyzeGradle(content.text)
      [] filename = "Gemfile" -> AnalyzeRuby(content.text)
      [] filename = "composer.json" -> AnalyzeComposer(content.loads)
      [] filename = "go.mod" -> AnalyzeGo(content.text)

\* the dict built at 9-15
EmptyReport ==
    [package_managers |-> <<>>,
     total_dependencies |-> 0,
     dependencies |-> EmptyMap,
     dev_dependencies |-> EmptyMap,
     outdated_dependencies |-> <<>>]

\* len() of a name -> version dict
DictLen(d) == Cardinality(DOMAIN d)

\* Merge with the dev dependencies counted into the total as well
Merge_CountsDev(report, filename, result) ==
    [report EXCEPT
        !.package_managers = Append(@, filename),
        !.dependencies = Put(@, filename, Get(result, "dependencies", EmptyMap)),
        !.dev_dependencies =
            IF "dev_dependencies" \in DOMAIN result
            THEN Put(@, filename, result.dev_dependencies)
            ELSE @,
        !.total_dependencies = @ + DictLen(Get(result, "dependencies", EmptyMap))
                                 + DictLen(Get(result, "dev_dependencies", EmptyMap))]

\* Merge with the filename put at the head of package_managers
Merge_Prepends(report, filename, result) ==
    [report EXCEPT
        !.package_managers = <<filename>> \o @,
        !.dependencies = Put(@, filename, Get(result, "dependencies", EmptyMap)),
        !.dev_dependencies =
            IF "dev_dependencies" \in DOMAIN result
            THEN Put(@, filename, result.dev_dependencies)
            ELSE @,
        !.total_dependencies = @ + DictLen(Get(result, "dependencies", EmptyMap))]

\* lines 34-38 for a parser result that is a non-empty dict
Merge(report, filename, result) ==
    [report EXCEPT
        !.package_managers = Append(@, filename),
        !.dependencies = Put(@, filename, Get(result, "dependencies", EmptyMap)),
        !.dev_dependencies =
            IF "dev_dependencies" \in DOMAIN result
            THEN Put(@, filename, result.dev_dependencies)
            ELSE @,
        !.total_dependencies = @ + DictLen(Get(result, "dependencies", EmptyMap))]

\* one pass of the loop body 30-38 for filename, given what the fetch returned:
\* the report and the set of invoked analyzers after it, and whether the
\* analyzer raised (nothing in analyze_dependencies catches it)
\* lines 33-38: what the loop body does with the analyzer's result
Absorb(report, filename, result) ==
    IF result.kind = "dict" THEN Merge(report, filename, result.value) ELSE report

ProbeResult(report, invoked, filename, result) ==
    [raised |-> result.kind = "raise",
     report |-> IF result.kind = "raise" THEN report ELSE Absorb(report, filename, result),
     invoked |-> invoked \cup {filename}]

\* ProbeOutcome with the filename listed before the content is looked at
ProbeOutcome_ListsFirst(report, invoked, filename, content) ==
    IF ~Truthy(content)
    THEN [raised |-> FALSE,
          report |-> [report EXCEPT !.package_managers = Append(@, filename)],
          invoked |-> invoked]
    ELSE ProbeResult(report, invoked, filename, Analyzer(filename, content))

ProbeOutcome(report, invoked, filename, content) ==
    IF ~Truthy(content)
    THEN [raised |-> FALSE, report |-> report, invoked |-> invoked]
    ELSE ProbeResult(report, invoked, filename, Analyzer(filename, content))


-----------------------------------------------------------------------------
(* analyze_commits, analysis_service.py 9-67 *)

\* str.lower() on the symbols that hold upper-case letters
LowerSym(c) == IF c = "Fix" THEN "fix" ELSE IF c = "FEAT" THEN "feat" ELSE c
Lower(s) == [i \in 1..Len(s) |-> LowerSym(s[i])]

\* the keyword lists of the if/elif chain 35-48, in its order
CategoryKeywords ==
    <<[category |-> "feat", keywords |-> {<<"feat", ":">>, <<"feat", "ure", ":">>}],
      [category |-> "fix", keywords |-> {<<"fix", ":">>, <<"bug", ":">>, <<"hot", "fix", ":">>}],
      [category |-> "docs", keywords |-> {<<"doc", "s", ":">>, <<"doc", ":">>}],
      [category |-> "style", keywords |-> {<<"style", ":">>, <<"format", ":">>}],
      [category |-> "refactor", keywords |-> {<<"refact", "or", ":">>, <<"refact", ":">>}],
      [category |-> "test", keywords |-> {<<"test", ":">>, <<"test", "s", ":">>}],
      [category |-> "chore", keywords |-> {<<"chore", ":">>, <<"build", ":">>, <<"ci", ":">>}]>>

CategoryNames == {CategoryKeywords[i].category : i \in 1..Len(CategoryKeywords)} \cup {"others"}

\* any(keyword in message for keyword in [...])
AnyKeywordIn(keywords, message) == \E k \in keywords : Contains(message, k)

\* the if/elif chain from its i-th branch on
RECURSIVE ElifChain(_, _)
ElifChain(message, i) ==
    IF i > Len(CategoryKeywords) THEN "others"
    ELSE IF AnyKeywordIn(CategoryKeywords[i].keywords, message)
    THEN CategoryKeywords[i].category
    ELSE ElifChain(message, i + 1)

\* Categorize with the message taken as written
Categorize_CaseSensitive(message) == ElifChain(message, 1)

\* lines 30 and 35-50: the category whose counter the commit increments
Categorize(message) == ElifChain(Lower(message), 1)

\* line 31: commit.get('commit', {}).get('author', {}).get('name', 'Unknown')
AuthorOf(commit) == Get(commit.commit.author, "name", "Unknown")

\* line 32: ....get('date'), None when the key is missing
NoDate == <<"None">>
DateOf(commit) == Get(commit.commit.author, "date", NoDate)

\* line 52: author_stats[author] += 1 on a Counter
RECURSIVE CounterAdd(_, _)
CounterAdd(stats, name) ==
    IF stats = <<>> THEN <<[name |-> name, commit_count |-> 1]>>
    ELSE IF Head(stats).name = name
    THEN <<[Head(stats) EXCEPT !.commit_count = @ + 1]>> \o Tail(stats)
    ELSE <<Head(stats)>> \o CounterAdd(Tail(stats), name)

\* sorted(items, key=count, reverse=True): a stable sort, equal counts keep
\* their order
RECURSIVE InsertDesc(_, _)
InsertDesc(sorted, item) ==
    IF sorted = <<>> THEN <<item>>
    ELSE IF Head(sorted).commit_count >= item.commit_count
    THEN <<Head(sorted)>> \o InsertDesc(Tail(sorted), item)
    ELSE <<item>> \o sorted

RECURSIVE SortDesc(_)
SortDesc(items) ==
    IF items = <<>> THEN <<>>
    ELSE InsertDesc(SortDesc(SubSeq(items, 1, Len(items) - 1)), items[Len(items)])

TopAuthorsLimit == 10

\* MostCommon without the sort: the first n in insertion order
MostCommon_Unsorted(stats, n) ==
    SubSeq(stats, 1, IF Len(stats) < n THEN Len(stats) ELSE n)

\* Counter.most_common(n), line 64
MostCommon(stats, n) ==
    SubSeq(SortDesc(stats), 1, IF Len(stats) < n THEN Len(stats) ELSE n)

\* number of characters of a symbol of a date string
SymChars(c) ==
    CASE c \in {"2024-01-01", "2024-01-02", "2024-01-06", "not-a-date", "yesterday!"} -> 10
      [] c \in {"T10:00:00", "T23:59:59"} -> 9
      [] c = "+00:00" -> 6
      [] OTHER -> 1

\* date[:n] for a date string whose symbols end at character n or before it
RECURSIVE TakeChars(_, _)
TakeChars(s, n) ==
    IF s = <<>> \/ SymChars(Head(s)) > n THEN <<>>
    ELSE <<Head(s)>> \o TakeChars(Tail(s), n - SymChars(Head(s)))

\* str.replace('Z', '+00:00')
ReplaceZ(s) == [i \in 1..Len(s) |-> IF s[i] = "Z" THEN "+00:00" ELSE s[i]]

\* strftime('%A') of the calendar days of the inputs
Weekday(day) ==
    CASE day = "2024-01-01" -> "Monday"
      [] day = "2024-01-02" -> "Tuesday"
      [] day = "2024-01-06" -> "Saturday"

IsoDays == {"2024-01-01", "2024-01-02", "2024-01-06"}
IsoTimes == {"T10:00:00", "T23:59:59"}

\* datetime.fromisoformat accepts YYYY-MM-DD, optionally followed by a time,
\* optionally followed by a UTC offset; anything else is a ValueError
IsoFormat(s) ==
    /\ Len(s) \in 1..3
    /\ s[1] \in IsoDays
    /\ Len(s) >= 2 => s[2] \in IsoTimes
    /\ Len(s) = 3 => s[3] = "+00:00"

\* FrequencyStep that counts a date string without parsing it
FrequencyStep_NoParse(frequency, date_str) ==
    Put(frequency, "Monday", Get(frequency, "Monday", 0) + 1)

\* one iteration of the loop at 72-78
FrequencyStep(frequency, date_str) ==
    IF IsoFormat(ReplaceZ(date_str))
    THEN Put(frequency, Weekday(date_str[1]), Get(frequency, Weekday(date_str[1]), 0) + 1)
    ELSE frequency

\* _calculate_commit_frequency, 69-79
RECURSIVE CalculateCommitFrequency(_, _)
CalculateCommitFrequency(frequency, dates) ==
    IF dates = <<>> THEN frequency
    ELSE CalculateCommitFrequency(FrequencyStep(frequency, Head(dates)), Tail(dates))

MaxOf(a, b) == IF a >= b THEN a ELSE b

\* round(n / d, 2), in hundredths (no quotient of the inputs lies halfway)
Round2(n, d) == (200 * n + d) \div (2 * d)

\* line 58, in hundredths
AvgPerDay(n, dates) ==
    Round2(n, MaxOf(Cardinality({TakeChars(dates[i], 10) : i \in 1..Len(dates)}), 1))

\* EmptyCommitReport without the early return: the loop runs zero times
EmptyCommitReport_NoEarlyReturn ==
    [total_commits |-> 0,
     commit_categories |-> [c \in CategoryNames |-> 0],
     top_authors |-> <<>>,
     commit_frequency |-> EmptyMap,
     avg_commits_per_day |-> 0]

\* the dict returned at 12-18
EmptyCommitReport ==
    [total_commits |-> 0,
     commit_categories |-> EmptyMap,
     top_authors |-> <<>>,
     commit_frequency |-> EmptyMap,
     avg_commits_per_day |-> 0]

\* the dict returned at 60-67
CommitReport(n, cats, stats, dates) ==
    [total_commits |-> n,
     commit_categories |-> cats,
     top_authors |-> MostCommon(stats, TopAuthorsLimit),
     commit_frequency |-> CalculateCommitFrequency(EmptyMap, dates),
     avg_commits_per_day |-> AvgPerDay(n, dates)]

\* a commit record of the upstream API
Commit(message, author) == [commit |-> [message |-> message, author |-> author]]

DefaultDate == <<"2024-01-01", "T10:00:00", "Z">>

Messages ==
    {<<>>,
     <<"x">>,
     <<"fix">>,
     <<"feat", ":", " ", "x">>,
     <<"feat", "ure", ":", " ", "x">>,
     <<"FEAT", ":", " ", "x">>,
     <<"Fix", ":", " ", "null", " ", "pointer">>,
     <<"bug", ":">>,
     <<"hot", "fix", ":">>,
     <<"pre", "fix", ":", " ", "x">>,
     <<"fix", ":", " ", "feat", ":">>,
     <<"doc", "s", ":", " ", "x">>,
     <<"doc", ":">>,
     <<"test", ":", " ", "doc", "s", ":">>,
     <<"style", ":">>,
     <<"format", ":">>,
     <<"refact", "or", ":">>,
     <<"refact", ":">>,
     <<"test", ":">>,
     <<"test", "s", ":">>,
     <<"chore", ":">>,
     <<"build", ":">>,
     <<"ci", ":", " ", "fix">>}

DateStrings ==
    {<<>>,
     DefaultDate,
     <<"2024-01-01", "T23:59:59", "Z">>,
     <<"2024-01-02", "T10:00:00", "+00:00">>,
     <<"2024-01-06">>,
     <<"2024-01-06", "T", "x">>,
     <<"not-a-date">>,
     <<"yesterday!">>}

\* the i-th author name; names other than "Unknown" are interchangeable, so
\* a list introduces them in this order
AuthorName(i) == "dev" \o ToString(i)

\* the commits a list of the family may continue with
CommitInputs(family, stats) ==
    CASE family = "message" ->
           {Commit(m, [name |-> "dev1", date |-> DefaultDate]) : m \in Messages}
      [] family = "date" ->
           {Commit(<<"x">>, [name |-> "dev1", date |-> d]) : d \in DateStrings}
           \cup {Commit(<<"x">>, [name |-> "dev1"])}
      [] family = "author" ->
           {Commit(<<"x">>, [name |-> a, date |-> DefaultDate]) :
               a \in {stats[i].name : i \in 1..Len(stats)} \cup
                     {AuthorName(Cardinality({i \in 1..Len(stats) :
                                                  stats[i].name # "Unknown"}) + 1)}}
           \cup {Commit(<<"x">>, [date |-> DefaultDate])}

MaxLen(family) == IF family = "author" THEN MaxAuthorCommits ELSE MaxCommits

-----------------------------------------------------------------------------
(* Upstream fetches that fail the call, github_service.py 16-46, and the HTTP
   operations that make them, main.py 38-107 *)

\* status codes the upstream API answers with
StatusCodes == {200, 403, 404, 429, 500}

HTTPException(status_code, detail) ==
    [type |-> "HTTPException", status_code |-> status_code, detail |-> detail]

Raise(exc) == [kind |-> "raise", exc |-> exc]
Return(value) == [kind |-> "return", value |-> value]

\* get_repository 16-26; the detail quotes the upstream body
GetRepository(status) ==
    IF status # 200
    THEN Raise(HTTPException(status, <<"Repository not found: ", "response.text">>))
    ELSE Return("repo_data")

\* get_commits 35-46
GetCommits(status) ==
    IF status # 200
    THEN Raise(HTTPException(status, <<"Failed to fetch commits">>))
    ELSE Return("commits")

\* analyze_dependencies as the operations see it: the report, or the
\* exception of a parser
DependencyOutcomes == {Return("report"), Raise([type |-> "TypeError"])}

\* str(e)
StrOf(exc) ==
    IF exc.type = "HTTPException" THEN <<exc.status_code, exc.detail>> ELSE <<exc.type>>

\* "except Exception as e: raise HTTPException(status_code=500, ...)", 88-89
\* and 106-107; HTTPException is an Exception
ExceptException(outcome, prefix) ==
    IF outcome.kind = "raise"
    THEN Raise(HTTPException(500, <<prefix, StrOf(outcome.exc)>>))
    ELSE outcome

\* the try body 49-86: the fetches made, in order, and how the body ends
AnalyzeBody(status, deps) ==
    IF GetRepository(status.repository).kind = "raise"
    THEN [fetched |-> {"repository"}, outcome |-> GetRepository(status.repository)]
    ELSE IF GetCommits(status.commits).kind = "raise"
    THEN [fetched |-> {"repository", "languages", "commits"},
          outcome |-> GetCommits(status.commits)]
    ELSE [fetched |-> {"repository", "languages", "commits", "readme", "tree"},
          outcome |-> IF deps.kind = "raise" THEN deps ELSE Return("analysis")]

\* the try body 97-104
CommitAnalysisBody(status) ==
    [fetched |-> {"commits"},
     outcome |-> IF GetCommits(status.commits).kind = "raise"
                 THEN GetCommits(status.commits)
                 ELSE Return("commit_analysis")]

\* what the caller receives: the HTTPException as status and detail, or 200
Response(outcome) ==
    IF outcome.kind = "raise"
    THEN [status_code |-> outcome.exc.status_code, detail |-> outcome.exc.detail]
    ELSE [status_code |-> 200, detail |-> <<>>]

Restrict(f, keys) == [k \in keys |-> f[k]]

-----------------------------------------------------------------------------
(* The secondary fetches, github_service.py 28-33 and 48-100 *)

\* the bodies an upstream response may carry: text that is not JSON, a JSON
\* list, or a JSON object with or without "content" and "encoding"; the
\* content is base64 of UTF-8 text, base64 of other bytes, or not base64
Bodies ==
    {[json |-> "invalid", fields |-> EmptyMap], [json |-> "list", fields |-> EmptyMap]}
    \cup {[json |-> "object", fields |-> f] :
            f \in {EmptyMap}
                  \cup {"content" :> c : c \in {"b64_utf8", "b64_bytes", "not_b64"}}
                  \cup {"encoding" :> e : e \in {"base64", "none"}}
                  \cup {("content" :> c) @@ ("encoding" :> e) :
                          c \in {"b64_utf8", "b64_bytes", "not_b64"},
                          e \in {"base64", "none"}}}

Responses == {[status_code |-> st, body |-> b] : st \in StatusCodes, b \in Bodies}

PyNone == [type |-> "NoneType"]
PyEmptyDict == [type |-> "dict", len |-> 0]
PyEmptyList == [type |-> "list", len |-> 0]

\* response.json()
ResponseJson(response) ==
    IF response.body.json = "invalid"
    THEN Raise([type |-> "JSONDecodeError"])
    ELSE Return([type |-> "json", body |-> response.body])

\* data['content'] on the parsed body
ContentOf(body) ==
    IF body.json = "list" THEN Raise([type |-> "TypeError"])
    ELSE IF "content" \notin DOMAIN body.fields THEN Raise([type |-> "KeyError"])
    ELSE Return(body.fields["content"])

\* base64.b64decode(...).decode('utf-8')
B64DecodeUtf8(content) ==
    CASE content = "b64_utf8" -> Return([type |-> "str", text |-> "decoded"])
      [] content = "b64_bytes" -> Raise([type |-> "UnicodeDecodeError"])
      [] content = "not_b64" -> Raise([type |-> "binascii.Error"])

\* get_languages 28-33
GetLanguages(response) ==
    IF response.status_code = 200 THEN ResponseJson(response) ELSE Return(PyEmptyDict)

\* get_contributors 80-85
GetContributors(response) ==
    IF response.status_code = 200 THEN ResponseJson(response) ELSE Return(PyEmptyList)

\* get_tree 95-100
GetTree(response) ==
    IF response.status_code = 200 THEN ResponseJson(response) ELSE Return(PyEmptyDict)

\* get_readme 48-60: the try covers the lookup of 'content' and the decoding
GetReadme(response) ==
    IF response.status_code # 200 THEN Return(PyNone)
    ELSE IF ResponseJson(response).kind = "raise" THEN ResponseJson(response)
    ELSE IF ContentOf(response.body).kind = "raise" THEN Return(PyNone)
    ELSE IF B64DecodeUtf8(ContentOf(response.body).value).kind = "raise"
    THEN Return(PyNone)
    ELSE B64DecodeUtf8(ContentOf(response.body).value)

\* the test at line 70 on a parsed body: 'content' in data and
\* data['encoding'] == 'base64'
IsBase64Content(body) ==
    IF body.json = "list" \/ "content" \notin DOMAIN body.fields THEN Return(FALSE)
    ELSE IF "encoding" \notin DOMAIN body.fields THEN Raise([type |-> "KeyError"])
    ELSE Return(body.fields["encoding"] = "base64")

\* get_file_content 62-77: only UnicodeDecodeError is caught, and answered
\* with a placeholder text
GetFileContent(response) ==
    IF response.status_code # 200 THEN Return(PyNone)
    ELSE IF ResponseJson(response).kind = "raise" THEN ResponseJson(response)
    ELSE IF IsBase64Content(response.body).kind = "raise"
    THEN IsBase64Content(response.body)
    ELSE IF ~IsBase64Content(response.body).value THEN Return(PyNone)
    ELSE IF B64DecodeUtf8(response.body.fields["content"])
                = Raise([type |-> "UnicodeDecodeError"])
    THEN Return([type |-> "str", text |-> "[Binary file]"])
    ELSE B64DecodeUtf8(response.body.fields["content"])

\* the try body of /file-content, main.py 219-229, given what
\* github_service.get_file_content returned or raised: "if content" is false
\* for None and for the empty text
FileContentBody(fetched) ==
    IF fetched.kind = "raise" THEN fetched
    ELSE IF fetched.value.type = "str" /\ fetched.value.text # ""
    THEN Return("file")
    ELSE Raise(HTTPException(404, <<"File not found">>))

-----------------------------------------------------------------------------
(* States of an operation that is not running *)

ParserIdle ==
    /\ p_pc = "idle"
    /\ p_file = ""
    /\ p_content = <<>>
    /\ p_result = ResNone

DepIdle ==
    /\ d_pc = "idle"
    /\ d_idx = 0
    /\ d_content = NoContent
    /\ dependencies = EmptyReport
    /\ d_invoked = {}
    /\ d_absent = {}
    /\ d_fetched = EmptyMap

CommitIdle ==
    /\ c_pc = "idle"
    /\ c_family = ""
    /\ c_n = 0
    /\ categories = EmptyMap
    /\ author_stats = <<>>
    /\ commit_dates = <<>>
    /\ c_seen = EmptyMap
    /\ c_first = <<>>
    /\ c_report = EmptyCommitReport

ApiIdle ==
    /\ a_pc = "idle"
    /\ a_op = ""
    /\ a_upstream = EmptyMap
    /\ a_response = [status_code |-> 0, detail |-> <<>>]

FetchIdle ==
    /\ f_pc = "idle"
    /\ f_op = ""
    /\ f_response = [status_code |-> 0, body |-> [json |-> "invalid", fields |-> EmptyMap]]
    /\ f_result = Return(PyNone)

-----------------------------------------------------------------------------
(* analyze_dependencies as a process: one probe per step *)

\* the strings get_file_content may return for each manifest (an empty file
\* gives the empty string)
ManifestContents(filename) ==
    CASE filename = "package.json" ->
           {JsonText(JSONDecodeError),
            JsonText(JsonValue(JsonList)),
            Text(<<>>),
            JsonText(JsonValue(JsonDict([dependencies |-> (<<"x">> :> <<"^1.0">>)]))),
            JsonText(JsonValue(JsonDict(
                [dependencies |-> (<<"x">> :> <<"^1.0">>) @@ (<<"y">> :> <<"2">>),
                 devDependencies |-> (<<"z">> :> <<"3">>)])))}
      [] filename = "requirements.txt" ->
           {Text(<<"#", " ", "c">>),
            Text(<<"a", "=", "=", "1", NL, "b">>)}
      [] filename = "Pipfile" ->
           {Text(<<"[source]", NL, "k", " ", "=", " ", "\"", "1", "\"">>),
            Text(<<"[packages]", NL, "k", " ", "=", " ", "\"", "1", "\"">>),
            Text(<<"[dev-packages]", NL, "j", "=", "1">>)}
      [] filename = "pom.xml" ->
           {Text(<<"<project>">>),
            Text(<<"<dependency>", "<groupId>", "g", "</groupId>",
                   "<artifactId>", "a", "</artifactId>",
                   "<version>", " ", "1", "</version>", "</dependency>">>)}
      [] filename = "build.gradle" ->
           {Text(<<>>),
            Text(<<"implementation", " ", "'", "g", ":", "a", ":", "1", "'">>)}
      [] filename = "Gemfile" ->
           {Text(<<"source">>),
            Text(<<"gem", " ", "'", "rails", "'", ",", " ", "'", "1", "'", NL,
                   "gem", " ", "'", "rake", "'">>)}
      [] filename = "composer.json" ->
           {JsonText(JSONDecodeError),
            JsonText(JsonValue(JsonDict(EmptyMap))),
            JsonText(JsonValue(JsonDict(("require" :> (<<"p">> :> <<"1">>)) @@
                                        ("require-dev" :> (<<"q">> :> <<"1">>)))))}
      [] filename = "go.mod" ->
           {Text(<<"module", " ", "m">>),
            Text(<<"require", " ", "m", " ", "v">>)}

FetchOutcomes(filename) == {NoContent} \cup ManifestContents(filename)

InitDeps ==
    /\ d_pc = "probing"
    /\ d_idx = 1
    /\ d_content = NoContent
    /\ dependencies = EmptyReport
    /\ d_invoked = {}
    /\ d_absent = {}
    /\ d_fetched = EmptyMap
    /\ ParserIdle
    /\ CommitIdle
    /\ ApiIdle
    /\ FetchIdle

\* one iteration of "for filename, analyzer in package_files.items()"
ProbeStep ==
    /\ d_pc = "probing"
    /\ d_idx <= Len(package_files)
    /\ \E filename \in {package_files[d_idx]} :
       \E content \in FetchOutcomes(filename) :
       \E out \in {ProbeOutcome(dependencies, d_invoked, filename, content)} :
             /\ d_content' = content
             /\ d_fetched' = Put(d_fetched, filename, content)
             /\ d_absent' = IF content = NoContent THEN d_absent \cup {filename}
                            ELSE d_absent
             /\ dependencies' = out.report
             /\ d_invoked' = out.invoked
             /\ d_pc' = IF out.raised THEN "raised" ELSE "probing"
             /\ d_idx' = IF out.raised THEN d_idx ELSE d_idx + 1
    /\ UNCHANGED <<parserVars, commitVars, apiVars, fetchVars>>

\* return dependencies, line 40
ReturnReport ==
    /\ d_pc = "probing"
    /\ d_idx = Len(package_files) + 1
    /\ d_pc' = "done"
    /\ UNCHANGED <<d_idx, d_content, dependencies, d_invoked, d_absent, d_fetched,
                   parserVars, commitVars, apiVars, fetchVars>>

NextDeps == ProbeStep \/ ReturnReport

SpecDeps == InitDeps /\ [][NextDeps]_vars

-----------------------------------------------------------------------------
(* Parser harness: a content string is handed to one parser *)

PyAlphabet == {"a", "=", "#", " ", NL}
PyContents == SeqsUpTo(PyAlphabet, MaxContentLen)

InitPy ==
    /\ p_pc = "ready"
    /\ p_file = "requirements.txt"
    /\ p_content \in PyContents
    /\ p_result = ResNone
    /\ DepIdle
    /\ CommitIdle
    /\ ApiIdle
    /\ FetchIdle

RunPython ==
    /\ p_pc = "ready"
    /\ p_file = "requirements.txt"
    /\ p_result' = AnalyzePython(p_content)
    /\ p_pc' = "done"
    /\ UNCHANGED <<p_file, p_content, depVars, commitVars, apiVars, fetchVars>>

NextPy == RunPython

SpecPy == InitPy /\ [][NextPy]_vars

\* lines a go.mod is made of
GoLines ==
    {<<>>,
     <<"module", " ", "m">>,
     <<"require", " ", "(">>,
     <<")">>,
     <<" ", "m", " ", "v">>,
     <<"n", " ", "w", " ", "//">>,
     <<"m">>,
     <<"require", " ", "m", " ", "v">>,
     <<"require", " ", "n">>}

RECURSIVE JoinLines(_)
JoinLines(lines) ==
    IF Len(lines) = 0 THEN <<>>
    ELSE IF Len(lines) = 1 THEN lines[1]
    ELSE lines[1] \o <<NL>> \o JoinLines(Tail(lines))

GoContents == {JoinLines(ls) : ls \in SeqsUpTo(GoLines, MaxGoLines)}

InitGo ==
    /\ p_pc = "ready"
    /\ p_file = "go.mod"
    /\ p_content \in GoContents
    /\ p_result = ResNone
    /\ DepIdle
    /\ CommitIdle
    /\ ApiIdle
    /\ FetchIdle

RunGo ==
    /\ p_pc = "ready"
    /\ p_file = "go.mod"
    /\ p_result' = AnalyzeGo(p_content)
    /\ p_pc' = "done"
    /\ UNCHANGED <<p_file, p_content, depVars, commitVars, apiVars, fetchVars>>

NextGo == RunGo

SpecGo == InitGo /\ [][NextGo]_vars

\* lines a Pipfile is made of
PipfileLines ==
    {<<"[packages]">>,
     <<" ", "[dev-packages]">>,
     <<"[source]">>,
     <<"k", " ", "=", " ", "\"", "1", "\"", " ">>,
     <<"k", "=", "2", "=", "3">>,
     <<"url">>,
     <<"[packages]", " ", "x", "=", "1">>}

PipfileContents == {JoinLines(ls) : ls \in SeqsUpTo(PipfileLines, MaxPipfileLines)}

InitPipfile ==
    /\ p_pc = "ready"
    /\ p_file = "Pipfile"
    /\ p_content \in PipfileContents
    /\ p_result = ResNone
    /\ DepIdle
    /\ CommitIdle
    /\ ApiIdle
    /\ FetchIdle

RunPipfile ==
    /\ p_pc = "ready"
    /\ p_file = "Pipfile"
    /\ p_result' = AnalyzePipfile(p_content)
    /\ p_pc' = "done"
    /\ UNCHANGED <<p_file, p_content, depVars, commitVars, apiVars, fetchVars>>

NextPipfile == RunPipfile

SpecPipfile == InitPipfile /\ [][NextPipfile]_vars

-----------------------------------------------------------------------------
(* analyze_commits as a process: one commit per step *)

\* lines 21-27
InitCommits ==
    /\ c_pc = "start"
    /\ c_family \in {"message", "date", "author"}
    /\ c_n = 0
    /\ categories = [c \in CategoryNames |-> 0]
    /\ author_stats = <<>>
    /\ commit_dates = <<>>
    /\ c_seen = EmptyMap
    /\ c_first = <<>>
    /\ c_report = EmptyCommitReport
    /\ ParserIdle
    /\ DepIdle
    /\ ApiIdle
    /\ FetchIdle

\* analyze_commits([]) : lines 11-18
AnalyzeNoCommits ==
    /\ c_pc = "start"
    /\ c_report' = EmptyCommitReport
    /\ categories' = EmptyMap
    /\ c_pc' = "done"
    /\ UNCHANGED <<c_family, c_n, author_stats, commit_dates, c_seen, c_first,
                   parserVars, depVars, apiVars, fetchVars>>

\* one iteration of the loop 29-54
CommitStep ==
    /\ c_pc \in {"start", "loop"}
    /\ c_n < MaxLen(c_family)
    /\ \E commit \in CommitInputs(c_family, author_stats) :
       \E author \in {AuthorOf(commit)} :
       \E date_str \in {DateOf(commit)} :
         /\ categories' = [categories EXCEPT ![Categorize(commit.commit.message)] = @ + 1]
         /\ author_stats' = CounterAdd(author_stats, author)
         /\ commit_dates' = IF date_str # NoDate /\ date_str # <<>>
                            THEN Append(commit_dates, date_str)
                            ELSE commit_dates
         /\ c_seen' = Put(c_seen, commit, Get(c_seen, commit, 0) + 1)
         /\ c_first' = IF \E i \in 1..Len(c_first) : c_first[i] = author
                       THEN c_first ELSE Append(c_first, author)
    /\ c_n' = c_n + 1
    /\ c_pc' = "loop"
    /\ UNCHANGED <<c_family, c_report, parserVars, depVars, apiVars, fetchVars>>

\* lines 56-67
ReturnCommitReport ==
    /\ c_pc = "loop"
    /\ c_report' = CommitReport(c_n, categories, author_stats, commit_dates)
    /\ c_pc' = "done"
    /\ UNCHANGED <<c_family, c_n, categories, author_stats, commit_dates,
                   c_seen, c_first, parserVars, depVars, apiVars, fetchVars>>

NextCommits == AnalyzeNoCommits \/ CommitStep \/ ReturnCommitReport

SpecCommits == InitCommits /\ [][NextCommits]_vars

-----------------------------------------------------------------------------
(* The HTTP operations: one call per behaviour *)

InitApi ==
    /\ ApiIdle
    /\ ParserIdle
    /\ DepIdle
    /\ CommitIdle
    /\ FetchIdle

Resources == {"repository", "languages", "commits", "readme", "tree"}

\* GET /analyze/{owner}/{repo}
AnalyzeRepository ==
    /\ a_pc = "idle"
    /\ \E status \in [Resources -> StatusCodes] :
       \E deps \in DependencyOutcomes :
       \E body \in {AnalyzeBody(status, deps)} :
         /\ a_upstream' = Restrict(status, body.fetched)
         /\ a_response' = Response(ExceptException(body.outcome, "Analysis failed: "))
    /\ a_op' = "/analyze"
    /\ a_pc' = "done"
    /\ UNCHANGED <<parserVars, depVars, commitVars, fetchVars>>

\* GET /commit-analysis/{owner}/{repo}
DetailedCommitAnalysis ==
    /\ a_pc = "idle"
    /\ \E status \in [{"commits"} -> StatusCodes] :
       \E body \in {CommitAnalysisBody(status)} :
         /\ a_upstream' = Restrict(status, body.fetched)
         /\ a_response' = Response(ExceptException(body.outcome, "Commit analysis failed: "))
    /\ a_op' = "/commit-analysis"
    /\ a_pc' = "done"
    /\ UNCHANGED <<parserVars, depVars, commitVars, fetchVars>>

\* GET /file-content/{owner}/{repo}
FileContent ==
    /\ a_pc = "idle"
    /\ f_pc = "idle"
    /\ \E response \in Responses :
         /\ f_response' = response
         /\ f_result' = GetFileContent(response)
         /\ a_upstream' = ("contents" :> response.status_code)
         /\ a_response' = Response(ExceptException(FileContentBody(GetFileContent(response)),
                                                   "Failed to fetch file content: "))
    /\ f_op' = "get_file_content"
    /\ f_pc' = "done"
    /\ a_op' = "/file-content"
    /\ a_pc' = "done"
    /\ UNCHANGED <<parserVars, depVars, commitVars>>

NextApi == AnalyzeRepository \/ DetailedCommitAnalysis \/ FileContent

SpecApi == InitApi /\ [][NextApi]_vars

-----------------------------------------------------------------------------
(* The secondary fetches: one call per behaviour *)

InitFetch ==
    /\ FetchIdle
    /\ ParserIdle
    /\ DepIdle
    /\ CommitIdle
    /\ ApiIdle

CallGetLanguages ==
    /\ f_pc = "idle"
    /\ \E response \in Responses :
         /\ f_response' = response
         /\ f_result' = GetLanguages(response)
    /\ f_op' = "get_languages"
    /\ f_pc' = "done"
    /\ UNCHANGED <<parserVars, depVars, commitVars, apiVars>>

CallGetContributors ==
    /\ f_pc = "idle"
    /\ \E response \in Responses :
         /\ f_response' = response
         /\ f_result' = GetContributors(response)
    /\ f_op' = "get_contributors"
    /\ f_pc' = "done"
    /\ UNCHANGED <<parserVars, depVars, commitVars, apiVars>>

CallGetTree ==
    /\ f_pc = "idle"
    /\ \E response \in Responses :
         /\ f_response' = response
         /\ f_result' = GetTree(response)
    /\ f_op' = "get_tree"
    /\ f_pc' = "done"
    /\ UNCHANGED <<parserVars, depVars, commitVars, apiVars>>

CallGetReadme ==
    /\ f_pc = "idle"
    /\ \E response \in Responses :
         /\ f_response' = response
         /\ f_result' = GetReadme(response)
    /\ f_op' = "get_readme"
    /\ f_pc' = "done"
    /\ UNCHANGED <<parserVars, depVars, commitVars, apiVars>>

CallGetFileContent ==
    /\ f_pc = "idle"
    /\ \E response \in Responses :
         /\ f_response' = response
         /\ f_result' = GetFileContent(response)
    /\ f_op' = "get_file_content"
    /\ f_pc' = "done"
    /\ UNCHANGED <<parserVars, depVars, commitVars, apiVars>>

NextFetch ==
    \/ CallGetLanguages
    \/ CallGetContributors
    \/ CallGetTree
    \/ CallGetReadme
    \/ CallGetFileContent

SpecFetch == InitFetch /\ [][NextFetch]_vars

-----------------------------------------------------------------------------
(* Properties of analyze_dependencies, checked under SpecDeps *)

Range(seq) == {seq[i] : i \in 1..Len(seq)}

RECURSIVE SumSizes(_)
SumSizes(maps) ==
    IF DOMAIN maps = {} THEN 0
    ELSE LET f == CHOOSE g \in DOMAIN maps : TRUE
         IN  Cardinality(DOMAIN maps[f])
             + SumSizes([g \in (DOMAIN maps) \ {f} |-> maps[g]])

\* C1: no content makes a manifest parser raise, so analyze_dependencies
\* always completes: the probe loop never ends in an exception.
C1_ParsersNeverRaise == d_pc # "raised"

\* C2: after every probe step and in the final report, total_dependencies is
\* the sum of the sizes of the per-filename dependency maps; the
\* dev-dependency maps add nothing to it.
C2_TotalIsSumOfSizes ==
    dependencies.total_dependencies = SumSizes(dependencies.dependencies)

\* a finished report that holds dependencies and dev dependencies
C2_Witness ==
    /\ d_pc = "done"
    /\ dependencies.total_dependencies >= 3
    /\ SumSizes(dependencies.dev_dependencies) >= 2

\* C3: a filename for which the fetch returned no content never has its
\* parser invoked and appears in none of package_managers, dependencies,
\* dev_dependencies.
C3_AbsentNeverParsed ==
    \A f \in d_absent :
        /\ f \notin d_invoked
        /\ f \notin Range(dependencies.package_managers)
        /\ f \notin DOMAIN dependencies.dependencies
        /\ f \notin DOMAIN dependencies.dev_dependencies

\* a finished report with absent manifests and parsed ones
C3_Witness ==
    /\ d_pc = "done"
    /\ Cardinality(d_absent) >= 2
    /\ Len(dependencies.package_managers) >= 2

\* the manifest was fetched with content and its parser returned a result
\* (no parser makes a result of the empty text)
ParsedNonNull(f) ==
    /\ f \in DOMAIN d_fetched
    /\ d_fetched[f] # NoContent
    /\ d_fetched[f] # Text(<<>>)
    /\ Analyzer(f, d_fetched[f]).kind = "dict"

\* the filenames among the first n of the probe order that were parsed
RECURSIVE ParsedInOrder(_)
ParsedInOrder(n) ==
    IF n = 0 THEN <<>>
    ELSE IF ParsedNonNull(package_files[n])
         THEN Append(ParsedInOrder(n - 1), package_files[n])
         ELSE ParsedInOrder(n - 1)

\* the repository exposes nothing but a package.json holding
\* {"dependencies": {"x": "^1.0"}}
OnlyPackageJson ==
    /\ DOMAIN d_fetched = Range(package_files)
    /\ d_fetched["package.json"] =
           JsonText(JsonValue(JsonDict([dependencies |-> (<<"x">> :> <<"^1.0">>)])))
    /\ \A f \in Range(package_files) \ {"package.json"} : d_fetched[f] = NoContent

\* C12: in the returned report package_managers is the sequence, in probe
\* order and without repetition, of the filenames whose content was fetched
\* and whose parser returned non-null; the keys of dependencies are these
\* filenames; a lone package.json with one dependency gives
\* package_managers = ["package.json"] and total_dependencies = 1.
C12_ManagersInProbeOrder ==
    d_pc = "done" =>
        /\ dependencies.package_managers = ParsedInOrder(Len(package_files))
        /\ DOMAIN dependencies.dependencies = Range(dependencies.package_managers)
        /\ Cardinality(Range(dependencies.package_managers))
               = Len(dependencies.package_managers)
        /\ OnlyPackageJson =>
               /\ dependencies.package_managers = <<"package.json">>
               /\ dependencies.total_dependencies = 1

\* a report for a repository holding a JSON manifest, a line-oriented one and
\* a Gemfile, with other manifests absent or without entries
C12_Witness ==
    /\ d_pc = "done"
    /\ dependencies.package_managers = <<"package.json", "requirements.txt", "Gemfile">>
    /\ d_fetched["pom.xml"] = Text(<<"<project>">>)
    /\ "Pipfile" \in d_absent

-----------------------------------------------------------------------------
(* Properties of _analyze_python_dependencies, checked under SpecPy *)

\* the stripped lines of the content that are neither blank nor '#' comments
PyEntryLines(content) ==
    LET lines == SplitOn(Strip(content), NL)
    IN  SelectSeq([i \in 1..Len(lines) |-> Strip(lines[i])],
                  LAMBDA l : l # <<>> /\ Head(l) # "#")

\* the lengths n of a name such that the line reads name, comparator, version
PyNameLens(line) ==
    {n \in 1..(Len(line) - 2) :
        /\ \A i \in 1..n : line[i] \in NameChars
        /\ line[n + 1] \in OpChars}

\* the entry a line stands for: name -> op+version, or line -> "latest"
PyEntryOf(line) ==
    IF PyNameLens(line) # {}
    THEN LET n == CHOOSE k \in PyNameLens(line) : TRUE
         IN  [key |-> SubSeq(line, 1, n), value |-> SubSeq(line, n + 1, Len(line))]
    ELSE [key |-> line, value |-> Latest]

PyResultMap == IF p_result.kind = "dict" THEN p_result.value.dependencies ELSE EmptyMap

PyDone == p_pc = "done" /\ p_file = "requirements.txt"

\* the value of each key is that of the last line declaring it
PyValuesFromLines(map, lines) ==
    \A i \in 1..Len(lines) :
        (\A j \in (i + 1)..Len(lines) : PyEntryOf(lines[j]).key # PyEntryOf(lines[i]).key)
            => map[PyEntryOf(lines[i]).key] = PyEntryOf(lines[i]).value

\* C7 as stated: the map has as many entries as there are non-blank,
\* non-comment lines, each stored as name -> op+version or line -> "latest".
C7_OneEntryPerLine ==
    PyDone =>
        /\ Cardinality(DOMAIN PyResultMap) = Len(PyEntryLines(p_content))
        /\ DOMAIN PyResultMap = {PyEntryOf(l).key : l \in Range(PyEntryLines(p_content))}
        /\ PyValuesFromLines(PyResultMap, PyEntryLines(p_content))

\* C7 amended: every non-blank, non-comment line writes one entry, name ->
\* op+version or line -> "latest"; a later line with the same key replaces
\* the earlier one, so the map has one entry per distinct key; the parser
\* returns None exactly when there is no such line.
C7_OneEntryPerKey ==
    PyDone =>
        /\ DOMAIN PyResultMap = {PyEntryOf(l).key : l \in Range(PyEntryLines(p_content))}
        /\ PyValuesFromLines(PyResultMap, PyEntryLines(p_content))
        /\ (p_result.kind = "none") = (PyEntryLines(p_content) = <<>>)
        /\ p_result.kind # "raise"

\* a versioned line followed by a bare line of the same name
C7_Witness ==
    /\ PyDone
    /\ Len(PyEntryLines(p_content)) = 2
    /\ PyNameLens(PyEntryLines(p_content)[1]) # {}
    /\ PyEntryOf(PyEntryLines(p_content)[2]) =
           [key |-> PyEntryOf(PyEntryLines(p_content)[1]).key, value |-> Latest]
    /\ Cardinality(DOMAIN PyResultMap) = 1

-----------------------------------------------------------------------------
(* Properties of _analyze_go_dependencies, checked under SpecGo *)

\* the entries the require lines of a go.mod stand for: first token -> second
\* token of every line inside a require block, or after "require ", that has
\* two tokens
RECURSIVE GoEntries(_, _, _)
GoEntries(deps, in_block, lines) ==
    IF lines = <<>> THEN deps
    ELSE LET line == Strip(Head(lines))
             tokens == SplitWs(Remove(line, RequireWord))
         IN  IF StartsWith(line, RequireOpen) THEN GoEntries(deps, TRUE, Tail(lines))
             ELSE IF line = <<")">> /\ in_block THEN GoEntries(deps, FALSE, Tail(lines))
             ELSE IF (in_block \/ StartsWith(line, RequireWord)) /\ Len(tokens) >= 2
             THEN GoEntries(Put(deps, tokens[1], tokens[2]), in_block, Tail(lines))
             ELSE GoEntries(deps, in_block, Tail(lines))

GoDone == p_pc = "done" /\ p_file = "go.mod"

\* C6: every candidate line with two tokens gives an entry first token ->
\* second token; other lines give nothing.
C6_FirstTokenIsKey ==
    GoDone =>
        /\ p_result.kind # "raise"
        /\ (IF p_result.kind = "dict" THEN p_result.value.dependencies ELSE EmptyMap)
               = GoEntries(EmptyMap, FALSE, SplitOn(p_content, NL))

(* Properties of _analyze_pipfile_dependencies, checked under SpecPipfile *)

\* the stripped lines of the Pipfile handed to the parser
PipLines == [i \in 1..Len(SplitOn(p_content, NL)) |-> Strip(SplitOn(p_content, NL)[i])]

\* what a line is as a section header: "packages", "dev-packages", "other"
\* for any other line opening with '[', "entry" for the remaining lines
HeaderKind(line) ==
    IF line = <<>> THEN "entry"
    ELSE IF Head(line) = "[packages]" THEN "packages"
    ELSE IF Head(line) = "[dev-packages]" THEN "dev-packages"
    ELSE IF Head(line) \in {"[", "[source]"} THEN "other"
    ELSE "entry"

\* the section in force at line i: the kind of the most recent header before
\* it, "none" when there is no header before it
SectionAt(i) ==
    IF \A j \in 1..(i - 1) : HeaderKind(PipLines[j]) = "entry" THEN "none"
    ELSE HeaderKind(PipLines[CHOOSE j \in 1..(i - 1) :
                        /\ HeaderKind(PipLines[j]) # "entry"
                        /\ \A k \in (j + 1)..(i - 1) : HeaderKind(PipLines[k]) = "entry"])

\* the lines holding '=' that are no headers and stand in the given section
EntriesOf(section) ==
    {i \in 1..Len(PipLines) :
        /\ HeaderKind(PipLines[i]) = "entry"
        /\ \E j \in 1..Len(PipLines[i]) : PipLines[i][j] = "="
        /\ SectionAt(i) = section}

FirstEq(line) == CHOOSE j \in 1..Len(line) : line[j] = "=" /\ \A k \in 1..(j - 1) : line[k] # "="

\* name and version of an entry line, split on its first '='
PipKey(line) == Strip(SubSeq(line, 1, FirstEq(line) - 1))
PipValue(line) == StripQuotes(Strip(SubSeq(line, FirstEq(line) + 1, Len(line))))

\* the map the entry lines of a section amount to, a later line replacing an
\* earlier one of the same name
PipMap(section) ==
    [key \in {PipKey(PipLines[i]) : i \in EntriesOf(section)} |->
        PipValue(PipLines[CHOOSE i \in EntriesOf(section) :
                     /\ PipKey(PipLines[i]) = key
                     /\ \A k \in EntriesOf(section) : PipKey(PipLines[k]) = key => k <= i])]

PipDone == p_pc = "done" /\ p_file = "Pipfile"

\* C13: a line holding '=' is recorded exactly when the most recent section
\* header before it is [packages] or [dev-packages], in the dependencies map
\* in the first case and the dev-dependencies map in the second, split on its
\* first '='; any other header resets the section; the parser returns null
\* only if both maps end empty.
C13_SectionsDecideCapture ==
    PipDone =>
        /\ p_result.kind \in {"none", "dict"}
        /\ p_result.kind = "none" <=>
               EntriesOf("packages") = {} /\ EntriesOf("dev-packages") = {}
        /\ p_result.kind = "dict" =>
               /\ p_result.value.dependencies = PipMap("packages")
               /\ p_result.value.dev_dependencies = PipMap("dev-packages")

\* a Pipfile with an entry under [packages], then one under an unrecognised
\* header, then one under [dev-packages]
C13_Witness ==
    /\ PipDone
    /\ Len(PipLines) >= 4
    /\ \E i \in 1..Len(PipLines) :
           /\ HeaderKind(PipLines[i]) = "entry"
           /\ \E j \in 1..Len(PipLines[i]) : PipLines[i][j] = "="
           /\ SectionAt(i) = "other"
    /\ p_result.kind = "dict"
    /\ DOMAIN p_result.value.dependencies # {}

-----------------------------------------------------------------------------
(* Properties of analyze_commits, checked under SpecCommits *)

RECURSIVE SumCounts(_)
SumCounts(f) ==
    IF DOMAIN f = {} THEN 0
    ELSE LET c == CHOOSE x \in DOMAIN f : TRUE
         IN  f[c] + SumCounts([x \in (DOMAIN f) \ {c} |-> f[x]])

\* number of commits of the list that are in the set
CountSeen(commits) == SumCounts([c \in commits \cap DOMAIN c_seen |-> c_seen[c]])

\* the categories whose keyword set has a keyword occurring in the text
Matching(text) ==
    {i \in 1..Len(CategoryKeywords) :
        \E k \in CategoryKeywords[i].keywords :
            \E a \in 0..(Len(text) - Len(k)) : SubSeq(text, a + 1, a + Len(k)) = k}

\* the least of a non-empty set of numbers
Least(S) == CHOOSE i \in S : \A j \in S : i <= j

\* the first matching category in the fixed order, "others" when none matches
FirstOf(matching) ==
    IF matching = {} THEN "others" ELSE CategoryKeywords[Least(matching)].category

FirstMatching(message) ==
    FirstOf(Matching([i \in 1..Len(message) |-> LowerSym(message[i])]))

\* C5: every commit increments exactly one of the 8 categories, the first in
\* the order feat, fix, docs, style, refactor, test, chore whose keywords
\* match the lower-cased message, "others" when none does; the counts sum to
\* the number of commits.
C5_OneCategoryPerCommit ==
    /\ [][c_n' = c_n + 1 =>
            \E c \in DOMAIN c_seen' :
                /\ c_seen' = Put(c_seen, c, Get(c_seen, c, 0) + 1)
                /\ categories' =
                       [categories EXCEPT ![FirstMatching(c.commit.message)] = @ + 1]]_vars
    /\ [](c_pc \in {"loop", "done"} /\ c_n > 0 =>
            /\ DOMAIN categories = CategoryNames
            /\ SumCounts(categories) = c_n
            /\ c_pc = "done" =>
                   /\ c_report.commit_categories = categories
                   /\ c_report.total_commits = c_n)

\* "Fix: null pointer" counted as fix, next to a message naming two categories
C5_Witness ==
    /\ c_pc = "done"
    /\ c_n = 3
    /\ Commit(<<"Fix", ":", " ", "null", " ", "pointer">>,
              [name |-> "dev1", date |-> DefaultDate]) \in DOMAIN c_seen
    /\ Commit(<<"fix", ":", " ", "feat", ":">>,
              [name |-> "dev1", date |-> DefaultDate]) \in DOMAIN c_seen
    /\ c_report.commit_categories["fix"] = 1
    /\ c_report.commit_categories["feat"] = 1
    /\ c_report.commit_categories["others"] = 1

\* the date strings of the commits that fromisoformat parses (a trailing Z
\* read as UTC)
ParseableDays ==
    {d[1] : d \in {c.commit.author.date :
                      c \in {x \in DOMAIN c_seen : "date" \in DOMAIN x.commit.author}}
                  \cap {<<day>> \o rest : day \in IsoDays,
                        rest \in {<<>>} \cup {<<t>> : t \in IsoTimes}
                                 \cup {<<t, z>> : t \in IsoTimes, z \in {"Z", "+00:00"}}}}

\* C8: avg_commits_per_day is the commit count divided by max(1, D), D the
\* number of distinct calendar days among the commits whose date string
\* parses.
C8_AvgOverParseableDays ==
    c_pc = "done" /\ c_n > 0 =>
        c_report.avg_commits_per_day * 2 * MaxOf(Cardinality(ParseableDays), 1)
            \in (200 * c_n - MaxOf(Cardinality(ParseableDays), 1) + 1)
                ..(200 * c_n + MaxOf(Cardinality(ParseableDays), 1))

\* ISO-8601 date strings: a calendar day, optionally with a time of day,
\* optionally with a UTC designator, "Z" among them
IsoStrings ==
    {<<day>> : day \in IsoDays}
    \cup {<<day, t>> : day \in IsoDays, t \in IsoTimes}
    \cup {<<day, t, z>> : day \in IsoDays, t \in IsoTimes, z \in {"Z", "+00:00"}}

\* the commits iterated whose author date is present and parses
WithParseableDate ==
    {c \in DOMAIN c_seen :
        /\ "date" \in DOMAIN c.commit.author
        /\ c.commit.author.date \in IsoStrings}

\* C14: for a non-empty list total_commits is the length of the list whatever
\* the dates are, and the values of commit_frequency sum to the number of
\* commits whose author date is present and parses as ISO-8601 (trailing Z
\* accepted); the other commits are dropped from commit_frequency, so the sum
\* never exceeds total_commits.
C14_FrequencyCountsParseable ==
    c_pc = "done" /\ c_n > 0 =>
        /\ c_report.total_commits = SumCounts(c_seen)
        /\ SumCounts(c_report.commit_frequency) = CountSeen(WithParseableDate)
        /\ SumCounts(c_report.commit_frequency) <= c_report.total_commits

\* three commits: one dated, one with a date that does not parse, one with
\* no date
C14_Witness ==
    /\ c_pc = "done"
    /\ c_n = 3
    /\ SumCounts(c_report.commit_frequency) = 1
    /\ Commit(<<"x">>, [name |-> "dev1"]) \in DOMAIN c_seen
    /\ Commit(<<"x">>, [name |-> "dev1", date |-> <<"2024-01-06", "T", "x">>]) \in DOMAIN c_seen

\* the name a commit is counted under
CountedName(c) ==
    IF "name" \in DOMAIN c.commit.author THEN c.commit.author.name ELSE "Unknown"

\* position of a name in the order of first encounter
FirstSeen(name) == CHOOSE i \in 1..Len(c_first) : c_first[i] = name

\* C9: top_authors has at most 10 entries, in descending order of count with
\* ties in first-encountered order; it holds the authors with the highest
\* counts, each with the number of commits of that name (no name: "Unknown").
C9_TopAuthors ==
    c_pc = "done" /\ c_n > 0 =>
        LET top == c_report.top_authors
        IN  /\ Len(top) <= 10
            /\ Len(top) = IF Len(c_first) < 10 THEN Len(c_first) ELSE 10
            /\ \A i \in 1..Len(top) :
                   /\ top[i].name \in Range(c_first)
                   /\ top[i].commit_count =
                          CountSeen({c \in DOMAIN c_seen : CountedName(c) = top[i].name})
            /\ \A i, j \in 1..Len(top) :
                   i < j =>
                       \/ top[i].commit_count > top[j].commit_count
                       \/ /\ top[i].commit_count = top[j].commit_count
                          /\ FirstSeen(top[i].name) < FirstSeen(top[j].name)
            /\ \A name \in Range(c_first) \ {top[i].name : i \in 1..Len(top)} :
                   \A i \in 1..Len(top) :
                       \/ top[i].commit_count >
                              CountSeen({c \in DOMAIN c_seen : CountedName(c) = name})
                       \/ /\ top[i].commit_count =
                                 CountSeen({c \in DOMAIN c_seen : CountedName(c) = name})
                          /\ FirstSeen(top[i].name) < FirstSeen(name)

\* eleven authors, the last one met with two commits and so listed first,
\* and a commit without author name among them
C9_Witness ==
    /\ c_pc = "done"
    /\ Len(c_first) = 11
    /\ Len(c_report.top_authors) = 10
    /\ c_report.top_authors[1] = [name |-> c_first[11], commit_count |-> 2]
    /\ \E i \in 2..10 : c_report.top_authors[i].name = "Unknown"

\* C10: analyze_commits([]) returns total_commits 0, avg_commits_per_day 0 and
\* empty commit_categories, top_authors and commit_frequency.
C10_EmptyListReport ==
    c_pc = "done" /\ c_n = 0 =>
        /\ c_report.total_commits = 0
        /\ c_report.avg_commits_per_day = 0
        /\ DOMAIN c_report.commit_categories = {}
        /\ c_report.top_authors = <<>>
        /\ DOMAIN c_report.commit_frequency = {}

\* the call on the empty list has returned
C10_Witness == c_pc = "done" /\ c_n = 0 /\ c_seen = EmptyMap

-----------------------------------------------------------------------------
(* Properties of the HTTP operations, checked under SpecApi *)

\* C4: when the upstream answers the repository fetch or the commit fetch
\* with a status other than success, the error the caller of /analyze or
\* /commit-analysis receives carries that status.
C4_UpstreamStatusReachesCaller ==
    a_pc = "done" /\ a_op \in {"/analyze", "/commit-analysis"} =>
        \A r \in {"repository", "commits"} \cap DOMAIN a_upstream :
            a_upstream[r] # 200 => a_response.status_code = a_upstream[r]

-----------------------------------------------------------------------------
(* Properties of the secondary fetches, checked under SpecFetch *)

\* the empty or null default of each secondary fetch
DefaultOf(op) ==
    CASE op \in {"get_languages", "get_tree"} -> PyEmptyDict
      [] op = "get_contributors" -> PyEmptyList
      [] op \in {"get_readme", "get_file_content"} -> PyNone

\* the body of the response cannot be decoded: it is not JSON, or, for the
\* fetches that decode a content field, that field is not base64 of UTF-8
DecodeFails(op, body) ==
    \/ body.json = "invalid"
    \/ /\ op \in {"get_readme", "get_file_content"}
       /\ body.json = "object"
       /\ "content" \in DOMAIN body.fields
       /\ body.fields["content"] # "b64_utf8"
       /\ op = "get_file_content" =>
              /\ "encoding" \in DOMAIN body.fields
              /\ body.fields["encoding"] = "base64"

\* C11: a secondary fetch (languages, tree, contributors, file content,
\* README) never raises, and answers every non-success response and every
\* decode failure of the body with its empty or null default.
C11_SecondaryFetchesDegrade ==
    f_pc = "done" =>
        /\ f_result.kind = "return"
        /\ f_response.status_code # 200 \/ DecodeFails(f_op, f_response.body) =>
               f_result.value = DefaultOf(f_op)

\* C15: when get_file_content returns no content for the path, /file-content
\* answers 404; it answers 500 only when the fetch itself failed.
C15_NoContentIs404 ==
    a_pc = "done" /\ a_op = "/file-content" =>
        /\ f_result = Return(PyNone) => a_response.status_code = 404
        /\ a_response.status_code = 500 => f_result.kind = "raise"

====
